---------------------------- MODULE Spec2Model ----------------------------
(***************************************************************************)
(* keepr: the repair-request page (NewRepairRequest.tsx), the login form   *)
(* (LoginForm.tsx) and the authentication modal (AuthModal.tsx), as state  *)
(* machines over the browser state (route, session storage, component      *)
(* state) and the backend tables products and repair_requests.             *)
(*                                                                         *)
(* An async handler is a run: a record holding the position of the handler *)
(* (the await it is suspended at), its locals and the effects it has had.  *)
(* One action is the code between two awaits, executed as the reply of the *)
(* pending remote call arrives.                                            *)
(***************************************************************************)
EXTENDS Integers, Sequences, FiniteSets, TLC

VARIABLES
    route,            \* location.pathname of the single-page application
    products,         \* rows of the backend table products
    repair_requests,  \* rows of the backend table repair_requests
    storage,          \* sessionStorage, as a function key -> value
    form,             \* NewRepairRequest: the field values of the mounted form
    errors,           \* NewRepairRequest: the fields showing a FormMessage
    isSubmitting,     \* NewRepairRequest: useState isSubmitting of the mounted page
    runs,             \* NewRepairRequest: the runs of onSubmit, oldest first
    isOpen,           \* AuthModal: the prop isOpen
    type,             \* AuthModal: the prop type
    step,             \* AuthModal: useState step
    email,            \* AuthModal: useState email
    loginSubmitting,  \* LoginForm: useState isSubmitting of the mounted form
    authRuns,         \* the runs in flight of the auth forms' submit handlers and
                      \* of the modal's success handlers they call, by slot
    returned,         \* the handler that returned in the latest step of the modal
                      \* or its forms: its name, the slot of its run, the reply it
                      \* got in that step and the effects the run has had
    images,           \* NewRepairRequest: useState images
    imagePreviewUrls, \* NewRepairRequest: useState imagePreviewUrls
    objectUrls,       \* the document's object URLs: the file of each URL created
    revoked,          \* the object URLs revoked so far
    imageCall,        \* the latest call of an image handler: its name, its
                      \* argument and the notices it showed
    locations,        \* RepairRequestTimeslots: useState locations
    selectedLocation, \* RepairRequestTimeslots: useState selectedLocation
    loading,          \* RepairRequestTimeslots: useState loading
    fetches,          \* the selects of locations issued since the page was loaded
    locRuns           \* the runs of fetchLocations in flight: the selectedLocation
                      \* each closed over

dbVars == <<products, repair_requests>>
imageVars == <<images, imagePreviewUrls, objectUrls, revoked, imageCall>>
slotVars == <<locations, selectedLocation, loading, fetches, locRuns>>
pageVars == <<form, errors, isSubmitting, runs, imageVars, slotVars>>
authVars == <<isOpen, type, step, email, loginSubmitting, authRuns, returned>>
vars == <<route, storage, dbVars, pageVars, authVars>>

(***************************************************************************)
(* Bounds of the model.                                                    *)
(***************************************************************************)
MaxRuns == 2          \* runs of the repair form's onSubmit in one behaviour
MaxAuthRuns == 1      \* runs of the auth forms' submit handlers in flight at a time
MaxSelection == 2     \* files of one selection of the file input
MaxUrls == 3          \* object URLs created in one document
MaxFetches == 4       \* selects of locations after which the user selects no more

(***************************************************************************)
(* JavaScript values.                                                      *)
(***************************************************************************)
Undefined == "undefined"
Null == "null"

\* A string of n characters.
RECURSIVE Chars(_)
Chars(n) ==
    IF n = 0 THEN ""
    ELSE IF n % 2 = 0 THEN LET half == Chars(n \div 2) IN half \o half
    ELSE Chars(n - 1) \o "x"

\* String.prototype.startsWith and String.prototype.includes.
StartsWith(s, p) == Len(s) >= Len(p) /\ SubSeq(s, 1, Len(p)) = p
Includes(s, p) == \E i \in 1..(Len(s) + 1 - Len(p)) : SubSeq(s, i, i + Len(p) - 1) = p

\* a || null, for a string or undefined.
OrNull(a) == IF a = Undefined \/ a = "" THEN Null ELSE a

(***************************************************************************)
(* NewRepairRequest.tsx: the form schema.                                  *)
(***************************************************************************)
deviceTypes ==
    <<"Vacuum cleaner", "Coffee machine", "TV", "Radio", "Lighting",
      "Fume hood", "Laptop", "Smartphone", "Other">>

DeviceTypeEnum ==
    {"Vacuum cleaner", "Coffee machine", "TV", "Radio", "Lighting",
     "Fume hood", "Laptop", "Smartphone", "Other"}

DescriptionMin == 20
DescriptionMax == 500

\* A slip: the bounds of the description are exclusive.
formSchemaExclusive(v) ==
    (IF v.deviceType \in DeviceTypeEnum THEN {} ELSE {"deviceType"})
    \cup (IF v.description = Undefined THEN {"description"}
          ELSE IF Len(v.description) <= DescriptionMin THEN {"description"}
          ELSE IF Len(v.description) >= DescriptionMax THEN {"description"}
          ELSE {})

\* The fields of a form input that the schema rejects.
formSchemaIssues(v) ==
    (IF v.deviceType \in DeviceTypeEnum THEN {} ELSE {"deviceType"})
    \cup (IF v.description = Undefined THEN {"description"}
          ELSE IF Len(v.description) < DescriptionMin THEN {"description"}
          ELSE IF Len(v.description) > DescriptionMax THEN {"description"}
          ELSE {})

formSchema(v) == formSchemaIssues(v) = {}

defaultValues ==
    [deviceType |-> Undefined, brand |-> "", model |-> "", description |-> ""]

(***************************************************************************)
(* The routes, the users and the inputs of the model.                      *)
(***************************************************************************)
RepairPage == "/new-repair-request"
TimeslotPage == "/repair-request-timeslots"
RepairRequestsPage == "/repair-requests"
DashboardPage == "/dashboard"
DevicePage == "/device/42"
HomePage == "/"

StorageKey == "repairRequestId"

Users == {"u1", "u2"}

\* What the user types into the repair form in the page specification: the
\* defaults (rejected) and an accepted input.
FormInputs ==
    { defaultValues,
      [deviceType |-> "TV", brand |-> "Acme", model |-> "", description |-> Chars(20)] }

BackendMessage == "backend error"
NetworkMessage == "network error"

(***************************************************************************)
(* Effects of a run, in the order the handler had them.                    *)
(***************************************************************************)
Call(name) == <<"call", name>>
Toast(title, description, variant) == <<"toast", title, description, variant>>
SetItem(key, value) == <<"setItem", key, value>>
NavigateTo(path) == <<"navigate", path>>

InTrace(r, e) == \E i \in 1..Len(r.trace) : r.trace[i] = e
IsToast(e) == e[1] = "toast"
IsDestructive(e) == IsToast(e) /\ e[4] = "destructive"
IsInsert(e) == e = Call("insert products") \/ e = Call("insert repair_requests")
IsSetItem(e) == e[1] = "setItem"
IsNavigate(e) == e[1] = "navigate"
Has(r, P(_)) == \E i \in 1..Len(r.trace) : P(r.trace[i])

(***************************************************************************)
(* The backend: generated identifiers.                                     *)
(***************************************************************************)
ProductId(n) == "p" \o ToString(n)
RepairId(n) == "r" \o ToString(n)
FreshProductId == ProductId(Cardinality(products) + 1)
FreshRepairId == RepairId(Cardinality(repair_requests) + 1)

(***************************************************************************)
(* AuthModal.tsx: the step controller's initial step.                      *)
(***************************************************************************)
Types == {"repair", "help", "login"}

\* type === "login" ? "login" : "register"
InitialStep(t) == IF t = "login" THEN "login" ELSE "register"

\* A free slot of authRuns, and the observation of a step in which no handler
\* returned.
IdleRun ==
    [kind |-> "none", pc |-> "idle", mounted |-> FALSE, type |-> "login",
     currentPath |-> "", email |-> "", trace |-> <<>>]

NoReturn == [handler |-> "none", slot |-> 0, reply |-> "none", trace |-> <<>>]

(***************************************************************************)
(* NewRepairRequest.tsx: the page.                                         *)
(***************************************************************************)
Mounted == route = RepairPage

\* The observation of a step in which no image handler was called.
NoCall == [handler |-> "none", index |-> 0, files |-> <<>>, notices |-> <<>>]

\* The image state of a NewRepairRequest that is not mounted or has just been
\* mounted. The object URLs of the document outlive the component.
ImagesReset ==
    /\ images' = <<>>
    /\ imagePreviewUrls' = <<>>
    /\ imageCall' = NoCall
    /\ UNCHANGED <<objectUrls, revoked>>

\* RepairRequestTimeslots at route p: mounted at /repair-request-timeslots, where
\* the effect of its first render has called fetchLocations, which runs to its
\* await with selectedLocation null.
TimeslotsAt(p) ==
    /\ locations' = <<>>
    /\ selectedLocation' = Null
    /\ loading' = TRUE
    /\ fetches' = IF p = TimeslotPage THEN 1 ELSE 0
    /\ locRuns' = IF p = TimeslotPage THEN <<Null>> ELSE <<>>

\* The state of the application after a page load at route p, with the modal's
\* parent passing type t, once the user has filled the repair form with f.
LoadedWith(p, t, f) ==
    /\ route = p
    /\ form = f
    /\ errors = {}
    /\ isSubmitting = FALSE
    /\ runs = <<>>
    /\ images = <<>>
    /\ imagePreviewUrls = <<>>
    /\ objectUrls = <<>>
    /\ revoked = {}
    /\ imageCall = NoCall
    /\ locations = <<>>
    /\ selectedLocation = Null
    /\ loading = TRUE
    /\ fetches = (IF p = TimeslotPage THEN 1 ELSE 0)
    /\ locRuns = (IF p = TimeslotPage THEN <<Null>> ELSE <<>>)
    /\ isOpen = FALSE
    /\ type = t
    /\ step = InitialStep(t)
    /\ email = ""
    /\ loginSubmitting = FALSE
    /\ authRuns = [i \in 1..MaxAuthRuns |-> IdleRun]
    /\ returned = NoReturn

Loaded(p, t) == LoadedWith(p, t, defaultValues)

\* The backend tables and the session storage, empty.
Empty ==
    /\ products = {}
    /\ repair_requests = {}
    /\ storage = [k \in {StorageKey} |-> Null]

\* The repair page, just loaded.
Init == Empty /\ Loaded(RepairPage, "repair")

\* Leaving the page unmounts it: its state is gone, and a run it started goes on
\* with setters that no longer reach a mounted component.
Unmount(rs) == [i \in 1..Len(rs) |-> [rs[i] EXCEPT !.mounted = FALSE]]

\* The user follows a link (or the history) to another route.
UserNavigates(p) ==
    /\ p # route
    /\ route' = p
    /\ form' = defaultValues
    /\ errors' = {}
    /\ isSubmitting' = FALSE
    /\ runs' = Unmount(runs)
    /\ ImagesReset
    /\ TimeslotsAt(p)
    /\ returned' = NoReturn
    /\ UNCHANGED <<storage, dbVars, isOpen, type, step, email, loginSubmitting, authRuns>>

\* The user fills the fields of the form.
EditForm(v) ==
    /\ Mounted
    /\ v # form
    /\ form' = v
    /\ UNCHANGED <<route, storage, dbVars, errors, isSubmitting, runs, imageVars,
                   slotVars, authVars>>

\* A run of onSubmit at its first await. replies are the replies of its remote
\* calls so far, in order; user, product_id and repair_id are its locals.
NewRun(values) ==
    [pc |-> "getUser", values |-> values, mounted |-> TRUE, replies |-> <<>>,
     user |-> Null, product_id |-> Null, repair_id |-> Null,
     trace |-> <<Call("getUser")>>]

\* form.handleSubmit(onSubmit), by the submit button (disabled while isSubmitting):
\* the resolver validates; onSubmit starts and runs to its first await.
HandleSubmit ==
    /\ Mounted
    /\ ~isSubmitting
    /\ Len(runs) < MaxRuns
    /\ IF formSchema(form)
       THEN /\ errors' = {}
            /\ isSubmitting' = TRUE
            /\ runs' = Append(runs, NewRun(form))
       ELSE /\ errors' = formSchemaIssues(form)
            /\ UNCHANGED <<isSubmitting, runs>>
    /\ UNCHANGED <<route, storage, dbVars, form, imageVars, slotVars, authVars>>


(***************************************************************************)
(* NewRepairRequest.tsx: onSubmit, from one await to the next.             *)
(***************************************************************************)
Replies == {"ok", "error", "throw"}

InFlight(i, pc) == i \in 1..Len(runs) /\ runs[i].pc = pc

\* A slip: the check of the user is dropped.
UserNeverAbsent(user) == FALSE

\* if (!user)
UserAbsent(user) == user = Null

\* A slip: productError is ignored.
ProductNeverFailed(reply) == FALSE

\* if (productError)
ProductFailed(reply) == reply = "error"

\* A slip: repairError is ignored.
RepairNeverFailed(reply) == FALSE

\* if (repairError)
RepairFailed(reply) == reply = "error"

ProductRow(id, user, values) ==
    [product_id |-> id, user_id |-> user, type |-> values.deviceType,
     brand |-> OrNull(values.brand), model |-> OrNull(values.model),
     status |-> "broken"]

\* A slip: the row references its own identifier instead of the product's.
RepairRowOfItself(id, user, product_id, values) ==
    [repair_id |-> id, user_id |-> user, product_id |-> id,
     description |-> values.description, status |-> "created"]

RepairRow(id, user, product_id, values) ==
    [repair_id |-> id, user_id |-> user, product_id |-> product_id,
     description |-> values.description, status |-> "created"]

\* A slip: the product's identifier is stored.
StoredProductId(repairRequest) == repairRequest.product_id

\* sessionStorage.setItem('repairRequestId', repairRequest.repair_id)
StoredItem(repairRequest) == repairRequest.repair_id

\* catch (error): the toast of the catch block.
CatchToast(message) == Toast("Submission failed", message, "destructive")

\* A slip: the finally block is missing.
FinallyMissing(r, submitting) == submitting

\* finally: setIsSubmitting(false), which reaches the page only while the
\* component that started the run is mounted.
Finally(r, submitting) == IF r.mounted THEN FALSE ELSE submitting

\* The run ends on reply: its last effects, and the finally block.
EndRun(i, reply, effects) ==
    /\ runs' = [runs EXCEPT ![i] = [@ EXCEPT !.pc = "done",
                                               !.replies = Append(@, reply),
                                               !.trace = @ \o effects]]
    /\ isSubmitting' = Finally(runs[i], isSubmitting)

\* The run goes on to its next await, pc, having issued call.
NextAwait(i, reply, pc, call) ==
    [runs[i] EXCEPT !.pc = pc, !.replies = Append(@, reply),
                    !.trace = Append(@, Call(call))]

\* supabase.auth.getUser() replies: a user, no user, or the call throws.
GetUserReplies(i, user, reply) ==
    /\ InFlight(i, "getUser")
    /\ IF reply = "throw"
       THEN EndRun(i, reply, <<CatchToast(NetworkMessage)>>)
       ELSE IF UserAbsent(user)
       THEN EndRun(i, user,
                   <<Toast("Authentication required",
                           "Please sign in to submit a repair request.",
                           "destructive")>>)
       ELSE /\ runs' = [runs EXCEPT ![i] =
                           [NextAwait(i, user, "insertProduct", "insert products")
                               EXCEPT !.user = user]]
            /\ UNCHANGED isSubmitting
    /\ UNCHANGED <<route, storage, dbVars, form, errors, imageVars, slotVars, authVars>>

\* The products insert replies: the row and its identifier, an error, or the call
\* throws.
ProductInsertReplies(i, reply) ==
    /\ InFlight(i, "insertProduct")
    /\ IF reply = "throw"
       THEN /\ EndRun(i, reply, <<CatchToast(NetworkMessage)>>)
            /\ UNCHANGED products
       ELSE IF ProductFailed(reply)
       THEN /\ EndRun(i, reply,
                      <<CatchToast("Failed to create product: " \o BackendMessage)>>)
            /\ UNCHANGED products
       ELSE LET product == IF reply = "ok"
                           THEN ProductRow(FreshProductId, runs[i].user, runs[i].values)
                           ELSE [product_id |-> Null]
            IN /\ products' = IF reply = "ok" THEN products \cup {product} ELSE products
               /\ runs' = [runs EXCEPT ![i] =
                              [NextAwait(i, reply, "insertRepair", "insert repair_requests")
                                  EXCEPT !.product_id = product.product_id]]
               /\ UNCHANGED isSubmitting
    /\ UNCHANGED <<route, repair_requests, storage, form, errors, imageVars, slotVars,
                   authVars>>

\* navigate(path): leaving the repair page unmounts it.
Navigated(path) ==
    /\ route' = path
    /\ IF path # route
       THEN /\ form' = defaultValues
            /\ errors' = {}
            /\ ImagesReset
            /\ TimeslotsAt(path)
       ELSE UNCHANGED <<form, errors, imageVars, slotVars>>

\* The repair_requests insert replies. On success the handler stores the
\* identifier, shows the toast and navigates, with no await in between.
RepairInsertReplies(i, reply) ==
    /\ InFlight(i, "insertRepair")
    /\ IF reply = "throw"
       THEN /\ EndRun(i, reply, <<CatchToast(NetworkMessage)>>)
            /\ UNCHANGED <<route, repair_requests, storage, form, errors, imageVars,
                           slotVars>>
       ELSE IF RepairFailed(reply)
       THEN /\ EndRun(i, reply, <<CatchToast("Failed to create repair request")>>)
            /\ UNCHANGED <<route, repair_requests, storage, form, errors, imageVars,
                           slotVars>>
       ELSE LET repairRequest ==
                    IF reply = "ok"
                    THEN RepairRow(FreshRepairId, runs[i].user, runs[i].product_id,
                                   runs[i].values)
                    ELSE [repair_id |-> Null]
                item == StoredItem(repairRequest)
                effects == <<SetItem(StorageKey, item),
                             Toast("Repair request created",
                                   "Now let's select available timeslots.", "default"),
                             NavigateTo(TimeslotPage)>>
                ended == [runs EXCEPT ![i] = [@ EXCEPT !.pc = "done",
                                                        !.replies = Append(@, reply),
                                                        !.repair_id = repairRequest.repair_id,
                                                        !.trace = @ \o effects]]
            IN /\ repair_requests' = IF reply = "ok"
                                     THEN repair_requests \cup {repairRequest}
                                     ELSE repair_requests
               /\ storage' = [storage EXCEPT ![StorageKey] = item]
               /\ Navigated(TimeslotPage)
               /\ runs' = IF route # TimeslotPage THEN Unmount(ended) ELSE ended
               /\ isSubmitting' = FALSE
    /\ UNCHANGED <<products, authVars>>

RepairNext ==
    \/ \E p \in {RepairPage, HomePage} : UserNavigates(p)
    \/ \E v \in FormInputs : EditForm(v)
    \/ HandleSubmit
    \/ \E i \in 1..MaxRuns, u \in Users \cup {Null}, reply \in {"ok", "throw"} :
           GetUserReplies(i, u, reply)
    \/ \E i \in 1..MaxRuns, reply \in Replies : ProductInsertReplies(i, reply)
    \/ \E i \in 1..MaxRuns, reply \in Replies : RepairInsertReplies(i, reply)

Spec == Init /\ [][RepairNext]_vars


(***************************************************************************)
(* AuthModal.tsx: the props, the reset effect and the step controller.     *)
(***************************************************************************)
Emails == {"ann@keepr.org", "bob@keepr.org"}

\* A slip: the effect is missing.
NoResetEffect(open, t, s) == s

\* useEffect(() => { if (isOpen) setStep(...) }, [isOpen, type]): the step after
\* the effect of a render in which isOpen or type changed.
ResetEffect(open, t, s) == IF open THEN InitialStep(t) ELSE s

\* LoginForm is rendered while the dialog is open in the login step.
LoginFormMounted(open, s) == open /\ s = "login"

UnmountAuth(rs) == [i \in DOMAIN rs |-> [rs[i] EXCEPT !.mounted = FALSE]]

\* A render of the modal with new props and state. A LoginForm that is no longer
\* rendered is unmounted: its isSubmitting is gone and its runs go on detached.
Render(open, t, s, e, submitting, rs) ==
    LET kept == LoginFormMounted(isOpen, step) /\ LoginFormMounted(open, s)
    IN /\ isOpen' = open
       /\ type' = t
       /\ step' = s
       /\ email' = e
       /\ loginSubmitting' = IF kept THEN submitting ELSE FALSE
       /\ authRuns' = IF kept THEN rs ELSE UnmountAuth(rs)

\* The pages whose parent component renders the modal.
ModalPages == {HomePage, DevicePage, DashboardPage}

\* The parent opens the modal for purpose t.
OpenModal(t) ==
    /\ route \in ModalPages
    /\ ~isOpen
    /\ Render(TRUE, t, ResetEffect(TRUE, t, step), email, loginSubmitting, authRuns)
    /\ returned' = NoReturn
    /\ UNCHANGED <<route, storage, dbVars, pageVars>>

\* The parent passes another type while the modal is open.
ChangeType(t) ==
    /\ isOpen
    /\ t # type
    /\ Render(isOpen, t, ResetEffect(isOpen, t, step), email, loginSubmitting, authRuns)
    /\ returned' = NoReturn
    /\ UNCHANGED <<route, storage, dbVars, pageVars>>

\* The prop isOpen after the parent's onClose().
onClose == FALSE

\* <Dialog onOpenChange={onClose}>: the user dismisses the dialog.
CloseModal ==
    /\ isOpen
    /\ Render(onClose, type, ResetEffect(onClose, type, step), email, loginSubmitting,
              authRuns)
    /\ returned' = NoReturn
    /\ UNCHANGED <<route, storage, dbVars, pageVars>>

\* handleLoginClick, by the link of the register form.
handleLoginClick ==
    /\ isOpen /\ step = "register"
    /\ Render(isOpen, type, "login", email, loginSubmitting, authRuns)
    /\ returned' = NoReturn
    /\ UNCHANGED <<route, storage, dbVars, pageVars>>

\* handleRegisterClick, by the link of the login form.
handleRegisterClick ==
    /\ isOpen /\ step = "login"
    /\ Render(isOpen, type, "register", email, loginSubmitting, authRuns)
    /\ returned' = NoReturn
    /\ UNCHANGED <<route, storage, dbVars, pageVars>>

(***************************************************************************)
(* The runs of the auth forms. A run starts in a form's onSubmit with the  *)
(* props of the render it was created in: the success callback it holds    *)
(* closes over that render's type and currentPath (handleRegisterSuccess   *)
(* reads neither, so a registration keeps neither). Its field mounted says *)
(* whether its setIsSubmitting still reaches a mounted LoginForm: it is    *)
(* kept for the runs of LoginForm.onSubmit only, the one form in the       *)
(* source with such a state.                                               *)
(***************************************************************************)
NewAuthRun(kind, call, e) ==
    [kind |-> kind, pc |-> "auth", mounted |-> (kind = "login"),
     type |-> IF kind = "register" THEN IdleRun.type ELSE type,
     currentPath |-> IF kind = "register" THEN IdleRun.currentPath ELSE route,
     email |-> e, trace |-> <<Call(call)>>]

FreeSlots == {i \in 1..MaxAuthRuns : authRuns[i].pc = "idle"}
FreeSlot == CHOOSE i \in FreeSlots : \A j \in FreeSlots : i <= j

AuthInFlight(i, kind, pc) ==
    i \in 1..MaxAuthRuns /\ authRuns[i].kind = kind /\ authRuns[i].pc = pc

\* The run of slot i goes on as r.
Continued(i, r) == [authRuns EXCEPT ![i] = r]

\* The run of slot i is over.
Over(i) == [authRuns EXCEPT ![i] = IdleRun]

\* RegisterForm: its onSubmit starts the registration of e.
RegisterSubmit(e) ==
    /\ isOpen /\ step = "register"
    /\ FreeSlots # {}
    /\ authRuns' = Continued(FreeSlot, NewAuthRun("register", "signUp", e))
    /\ returned' = NoReturn
    /\ UNCHANGED <<route, storage, dbVars, pageVars, isOpen, type, step, email,
                   loginSubmitting>>

\* handleRegisterSuccess(userEmail)
handleRegisterSuccess(userEmail, rs) ==
    Render(isOpen, type, "verify", userEmail, loginSubmitting, rs)

\* RegisterForm: the registration replies; on success it calls onRegisterSuccess.
RegisterReplies(i, reply) ==
    /\ AuthInFlight(i, "register", "auth")
    /\ LET r == [authRuns[i] EXCEPT
                    !.pc = "done",
                    !.trace = IF reply = "ok"
                              THEN Append(@, Toast("Registration successful",
                                                   "Please verify your email to continue.",
                                                   "default"))
                              ELSE @]
       IN /\ IF reply = "ok"
             THEN handleRegisterSuccess(r.email, Over(i))
             ELSE /\ authRuns' = Over(i)
                  /\ UNCHANGED <<isOpen, type, step, email, loginSubmitting>>
          /\ returned' = [handler |-> "RegisterForm.onSubmit", slot |-> i,
                          reply |-> reply, trace |-> r.trace]
    /\ UNCHANGED <<route, storage, dbVars, pageVars>>


(***************************************************************************)
(* LoginForm.tsx: onSubmit.                                                *)
(***************************************************************************)
\* form.handleSubmit(onSubmit), by the submit button (disabled while
\* isSubmitting), with credentials the form's schema accepted.
LoginSubmit ==
    /\ LoginFormMounted(isOpen, step)
    /\ ~loginSubmitting
    /\ FreeSlots # {}
    /\ loginSubmitting' = TRUE
    /\ authRuns' = Continued(FreeSlot, NewAuthRun("login", "signInWithPassword", ""))
    /\ returned' = NoReturn
    /\ UNCHANGED <<route, storage, dbVars, pageVars, isOpen, type, step, email>>

\* setIsSubmitting(false), which reaches the form only while it is mounted.
SetLoginSubmitting(r, submitting) == IF r.mounted THEN FALSE ELSE submitting

\* What onSubmit does after a successful sign-in, in order: the toast, then
\* onLoginSuccess(), which is not awaited and returns at its first await
\* (getSession), then navigate("/dashboard").
LoginSuccessEffects ==
    <<Toast("Login successful", "Welcome back!", "default"),
      Call("getSession"),
      NavigateTo(DashboardPage)>>

\* if (error) and catch (error): the toasts of a failed sign-in.
LoginFailureEffects(reply) ==
    IF reply = "error"
    THEN <<Toast("Login failed", BackendMessage, "destructive")>>
    ELSE <<Toast("Login failed", "An unexpected error occurred. Please try again.",
                 "destructive")>>

\* The route after the effects of a handler.
RouteAfter(effects, from) ==
    LET nav == {i \in 1..Len(effects) : IsNavigate(effects[i])}
    IN IF nav = {} THEN from
       ELSE effects[CHOOSE i \in nav : \A j \in nav : j <= i][2]

\* signInWithPassword replies: a session, an error, or the call throws.
SignInReplies(i, reply) ==
    /\ AuthInFlight(i, "login", "auth")
    /\ LET effects == IF reply = "ok" THEN LoginSuccessEffects
                      ELSE LoginFailureEffects(reply)
           r == [authRuns[i] EXCEPT
                    !.pc = IF reply = "ok" THEN "getSession" ELSE "done",
                    !.mounted = FALSE,
                    !.trace = @ \o effects]
       IN /\ authRuns' = IF reply = "ok" THEN Continued(i, r) ELSE Over(i)
          /\ returned' = [handler |-> "LoginForm.onSubmit", slot |-> i, reply |-> reply,
                          trace |-> r.trace]
          /\ loginSubmitting' = SetLoginSubmitting(authRuns[i], loginSubmitting)
          /\ IF RouteAfter(effects, route) # route
             THEN /\ route' = RouteAfter(effects, route)
                  /\ form' = defaultValues
                  /\ errors' = {}
                  /\ isSubmitting' = FALSE
                  /\ runs' = Unmount(runs)
                  /\ ImagesReset
                  /\ TimeslotsAt(RouteAfter(effects, route))
             ELSE UNCHANGED <<route, pageVars>>
    /\ UNCHANGED <<storage, dbVars, isOpen, type, step, email>>

(***************************************************************************)
(* AuthModal.tsx: the post-auth redirect decision and the two success      *)
(* handlers.                                                               *)
(***************************************************************************)
Stay == "stay"

\* handleLoginSuccess: the decision after onClose().
LoginRedirect(t, currentPath) ==
    IF StartsWith(currentPath, "/") /\ Len(currentPath) > 1
       /\ ~Includes(currentPath, "/dashboard")
    THEN Stay
    ELSE IF t = "repair" THEN RepairPage
    ELSE IF t = "help" THEN RepairRequestsPage
    ELSE Stay

\* A slip: the dashboard is not told from the other non-root paths.
VerificationRedirectAnyPath(t, currentPath) ==
    IF StartsWith(currentPath, "/") /\ Len(currentPath) > 1
    THEN Stay
    ELSE IF t = "repair" THEN RepairPage
    ELSE IF t = "help" THEN RepairRequestsPage
    ELSE Stay

\* handleVerificationSuccess: the decision after onClose().
VerificationRedirect(t, currentPath) ==
    IF StartsWith(currentPath, "/") /\ Len(currentPath) > 1
       /\ ~Includes(currentPath, "/dashboard")
    THEN Stay
    ELSE IF t = "repair" THEN RepairPage
    ELSE IF t = "help" THEN RepairRequestsPage
    ELSE Stay

SessionReplies == {"session", "noSession", "error", "throw"}

\* A page load ends every handler of the page that is still running.
Unload(rs) ==
    [i \in 1..Len(rs) |->
        IF rs[i].pc = "done" THEN [rs[i] EXCEPT !.mounted = FALSE]
        ELSE [rs[i] EXCEPT !.pc = "unloaded", !.mounted = FALSE]]

\* window.location.href = target: the application is loaded anew at target.
LocationAssigned(target) ==
    /\ route' = target
    /\ form' = defaultValues
    /\ errors' = {}
    /\ isSubmitting' = FALSE
    /\ runs' = Unload(runs)
    /\ images' = <<>>
    /\ imagePreviewUrls' = <<>>
    /\ objectUrls' = <<>>
    /\ revoked' = {}
    /\ imageCall' = NoCall
    /\ TimeslotsAt(target)
    /\ isOpen' = FALSE
    /\ type' = type
    /\ step' = InitialStep(type)
    /\ email' = ""
    /\ loginSubmitting' = FALSE
    /\ authRuns' = [i \in 1..MaxAuthRuns |-> IdleRun]

\* The end of a success handler whose session check passed: the toast, onClose(),
\* then the redirect decision.
CloseAndRedirect(i, handler, title, description, target) ==
    LET r == [authRuns[i] EXCEPT
                 !.pc = "done",
                 !.trace = @ \o <<Toast(title, description, "default"), Call("onClose")>>
                             \o (IF target = Stay THEN <<>> ELSE <<NavigateTo(target)>>)]
    IN /\ returned' = [handler |-> handler, slot |-> i, reply |-> "session",
                       trace |-> r.trace]
       /\ IF target = Stay
          THEN /\ Render(onClose, type, ResetEffect(onClose, type, step), email,
                         loginSubmitting, Over(i))
               /\ UNCHANGED <<route, pageVars>>
          ELSE LocationAssigned(target)

\* A slip: onClose() is called before the session is checked.
SessionFailedClosed(i, handler, reply, effects) ==
    /\ Render(onClose, type, ResetEffect(onClose, type, step), email, loginSubmitting,
              Over(i))
    /\ returned' = [handler |-> handler, slot |-> i, reply |-> reply,
                    trace |-> authRuns[i].trace \o effects]
    /\ UNCHANGED <<route, pageVars>>

\* The end of a success handler whose session check failed: a toast, or nothing
\* when getSession threw (the promise of the handler is rejected, unobserved).
SessionFailed(i, handler, reply, effects) ==
    /\ authRuns' = Over(i)
    /\ returned' = [handler |-> handler, slot |-> i, reply |-> reply,
                    trace |-> authRuns[i].trace \o effects]
    /\ UNCHANGED <<route, pageVars, isOpen, type, step, email, loginSubmitting>>

\* handleLoginSuccess, from its await of getSession.
LoginSessionReplies(i, reply) ==
    /\ AuthInFlight(i, "login", "getSession")
    /\ IF reply = "throw" THEN SessionFailed(i, "handleLoginSuccess", reply, <<>>)
       ELSE IF reply = "error"
       THEN SessionFailed(i, "handleLoginSuccess", reply,
                <<Toast("Authentication error",
                        "There was a problem with your login. Please try again.",
                        "destructive")>>)
       ELSE IF reply = "noSession"
       THEN SessionFailed(i, "handleLoginSuccess", reply,
                <<Toast("Login failed", "No session found. Please try again.",
                        "destructive")>>)
       ELSE CloseAndRedirect(i, "handleLoginSuccess", "Login successful",
                             "You have been logged in successfully.",
                             LoginRedirect(authRuns[i].type, authRuns[i].currentPath))
    /\ UNCHANGED <<storage, dbVars>>

\* VerificationForm: its onSubmit starts the verification.
VerificationSubmit ==
    /\ isOpen /\ step = "verify"
    /\ FreeSlots # {}
    /\ authRuns' = Continued(FreeSlot, NewAuthRun("verify", "verifyOtp", ""))
    /\ returned' = NoReturn
    /\ UNCHANGED <<route, storage, dbVars, pageVars, isOpen, type, step, email,
                   loginSubmitting>>

\* VerificationForm: the verification replies; on success it calls
\* onVerificationSuccess, which runs to its await of getSession.
VerificationReplies(i, reply) ==
    /\ AuthInFlight(i, "verify", "auth")
    /\ LET r == IF reply = "ok"
                THEN [authRuns[i] EXCEPT !.pc = "getSession",
                                         !.trace = Append(@, Call("getSession"))]
                ELSE [authRuns[i] EXCEPT !.pc = "done"]
       IN /\ authRuns' = IF reply = "ok" THEN Continued(i, r) ELSE Over(i)
          /\ returned' = [handler |-> "VerificationForm.onSubmit", slot |-> i,
                          reply |-> reply, trace |-> r.trace]
    /\ UNCHANGED <<route, storage, dbVars, pageVars, isOpen, type, step, email,
                   loginSubmitting>>

\* handleVerificationSuccess, from its await of getSession.
VerificationSessionReplies(i, reply) ==
    /\ AuthInFlight(i, "verify", "getSession")
    /\ IF reply = "throw" THEN SessionFailed(i, "handleVerificationSuccess", reply, <<>>)
       ELSE IF reply = "error"
       THEN SessionFailed(i, "handleVerificationSuccess", reply,
                <<Toast("Verification error",
                        "There was a problem verifying your account. Please try again.",
                        "destructive")>>)
       ELSE IF reply = "noSession"
       THEN SessionFailed(i, "handleVerificationSuccess", reply,
                <<Toast("Verification failed", "No session found. Please try again.",
                        "destructive")>>)
       ELSE CloseAndRedirect(i, "handleVerificationSuccess", "Verification successful",
                             "Your email has been verified. You are now logged in.",
                             VerificationRedirect(authRuns[i].type, authRuns[i].currentPath))
    /\ UNCHANGED <<storage, dbVars>>

(***************************************************************************)
(* The modal on the pages that show it.                                    *)
(***************************************************************************)
AuthPaths == {HomePage, DevicePage}

AuthInit == Empty /\ \E p \in AuthPaths, t \in Types : Loaded(p, t)

AuthNext ==
    \/ \E p \in AuthPaths : UserNavigates(p)
    \/ \E t \in Types : OpenModal(t)
    \/ \E t \in Types : ChangeType(t)
    \/ CloseModal
    \/ handleLoginClick
    \/ handleRegisterClick
    \/ \E e \in Emails : RegisterSubmit(e)
    \/ \E i \in 1..MaxAuthRuns, reply \in {"ok", "error"} : RegisterReplies(i, reply)
    \/ LoginSubmit
    \/ \E i \in 1..MaxAuthRuns, reply \in Replies : SignInReplies(i, reply)
    \/ \E i \in 1..MaxAuthRuns, reply \in SessionReplies : LoginSessionReplies(i, reply)
    \/ VerificationSubmit
    \/ \E i \in 1..MaxAuthRuns, reply \in {"ok", "error"} : VerificationReplies(i, reply)
    \/ \E i \in 1..MaxAuthRuns, reply \in SessionReplies :
           VerificationSessionReplies(i, reply)

AuthSpec == AuthInit /\ [][AuthNext]_vars


(***************************************************************************)
(* The resolver of the repair form over a wide set of inputs.              *)
(***************************************************************************)
SchemaDeviceTypes ==
    {deviceTypes[k] : k \in 1..Len(deviceTypes)} \cup {Undefined, "Toaster", "tv"}

SchemaLengths == {0, 19, 20, 21, 499, 500, 501}

SchemaInputs ==
    [deviceType : SchemaDeviceTypes,
     brand : {Undefined, "", "Acme"},
     model : {"", "X1"},
     description : {Chars(n) : n \in SchemaLengths}]

\* The repair page, filled by the user with any of the inputs.
SchemaInit == Empty /\ \E f \in SchemaInputs : LoadedWith(RepairPage, "repair", f)

SchemaNext == HandleSubmit

SchemaSpec == SchemaInit /\ [][SchemaNext]_vars

(***************************************************************************)
(* NewRepairRequest.tsx: handleImageChange and removeImage.                *)
(***************************************************************************)
\* 5 * 1024 * 1024
MaxImageSize == 5 * 1024 * 1024

\* The files the user can select: a File by its type and size.
Files ==
    { [type |-> "image/png", size |-> MaxImageSize],
      [type |-> "image/png", size |-> MaxImageSize + 1],
      [type |-> "application/pdf", size |-> 1024],
      [type |-> "application/x-apple-diskimage", size |-> 1024] }

\* e.target.files: the selections of the file input.
Selections == UNION {[1..n -> Files] : n \in 0..MaxSelection}

\* file.type.match('image.*'): the pattern is not anchored, and .* matches the
\* empty string, so it matches whenever the type contains "image".
MatchesImage(fileType) == Includes(fileType, "image")

\* file.size > 5 * 1024 * 1024
TooLarge(file) == file.size > MaxImageSize

\* The file reaches newImages.push(file).
Pushed(file) == MatchesImage(file.type) /\ ~TooLarge(file)
Skipped(file) == ~Pushed(file)

\* The toast of a file that the loop skips with continue.
ImageNotice(file) ==
    IF ~MatchesImage(file.type)
    THEN Toast("Invalid file type", "Please upload only image files", "destructive")
    ELSE Toast("File too large", "Please upload images smaller than 5MB", "destructive")

\* URL.createObjectURL: the n-th object URL of the document.
createObjectURL(n) == "blob:" \o ToString(n)

\* handleImageChange(e), with e.target.files = files: the loop over the files,
\* then setImages and setImagePreviewUrls.
handleImageChange(files) ==
    LET pushed == SelectSeq(files, Pushed)
        skipped == SelectSeq(files, Skipped)
    IN /\ Mounted
       /\ Len(objectUrls) + Len(pushed) <= MaxUrls
       /\ images' = images \o pushed
       /\ imagePreviewUrls' =
              imagePreviewUrls
              \o [k \in 1..Len(pushed) |-> createObjectURL(Len(objectUrls) + k)]
       /\ objectUrls' = objectUrls \o pushed
       /\ imageCall' = [handler |-> "handleImageChange", index |-> 0, files |-> files,
                        notices |-> [k \in 1..Len(skipped) |-> ImageNotice(skipped[k])]]
       /\ UNCHANGED <<route, storage, dbVars, form, errors, isSubmitting, runs, revoked,
                      slotVars, authVars>>

\* A slip: the first element is removed, whatever the index.
SpliceFirst(list, index) == Tail(list)

\* list.splice(index, 1), for an index (from 0) within the list.
Splice(list, index) ==
    SubSeq(list, 1, index) \o SubSeq(list, index + 2, Len(list))

\* removeImage(index), by the button of the preview at index.
removeImage(index) ==
    /\ Mounted
    /\ index \in 0..(Len(imagePreviewUrls) - 1)
    /\ revoked' = revoked \cup {imagePreviewUrls[index + 1]}
    /\ images' = Splice(images, index)
    /\ imagePreviewUrls' = Splice(imagePreviewUrls, index)
    /\ imageCall' = [handler |-> "removeImage", index |-> index, files |-> <<>>,
                     notices |-> <<>>]
    /\ UNCHANGED <<route, storage, dbVars, form, errors, isSubmitting, runs, objectUrls,
                   slotVars, authVars>>

ImageNext ==
    \/ \E p \in {RepairPage, HomePage} : UserNavigates(p)
    \/ \E files \in Selections : handleImageChange(files)
    \/ \E index \in 0..(MaxUrls - 1) : removeImage(index)

ImageSpec == Init /\ [][ImageNext]_vars


(***************************************************************************)
(* RepairRequestTimeslots: the effect that fetches the locations.          *)
(***************************************************************************)
Location(id) == [location_id |-> id, name |-> "Repair point " \o id]

\* What supabase.from('locations').select('*') replies: rows, no rows, null data
\* without an error, an error, or the call throws.
LocationRows ==
    { <<>>, <<Location("l1")>>, <<Location("l1"), Location("l2")>>,
      <<Location("l2"), Location("l1"), Location("l3")>> }
FetchReplies ==
    {[kind |-> "data", data |-> rows] : rows \in LocationRows}
    \cup {[kind |-> k, data |-> <<>>] : k \in {"null", "error", "throw"}}

\* if (data), after if (error) has not returned.
HasData(reply) == reply.kind = "data"

TimeslotsMounted == route = TimeslotPage

\* The selectedLocation after fetchLocations got reply, in a run that closed over
\* selected: if (data.length > 0 && !selectedLocation) setSelectedLocation(...).
DefaultLocation(reply, selected, current) ==
    IF HasData(reply) /\ Len(reply.data) > 0 /\ selected = Null
    THEN reply.data[1].location_id
    ELSE current

\* useEffect(..., [selectedLocation]): after a render in which selectedLocation
\* changed the effect calls fetchLocations again, which runs to its await.
FetchEffect(rs, before, after) == IF after # before THEN Append(rs, after) ELSE rs

\* The run i of fetchLocations gets the reply of its select.
LocationsReply(i, reply) ==
    LET others == SubSeq(locRuns, 1, i - 1) \o SubSeq(locRuns, i + 1, Len(locRuns))
        selected == DefaultLocation(reply, locRuns[i], selectedLocation)
        rs == FetchEffect(others, selectedLocation, selected)
    IN /\ TimeslotsMounted
       /\ i \in 1..Len(locRuns)
       /\ locations' = IF HasData(reply) THEN reply.data ELSE locations
       /\ selectedLocation' = selected
       /\ loading' = FALSE
       /\ locRuns' = rs
       /\ fetches' = fetches + (Len(rs) - Len(others))
       /\ UNCHANGED <<route, storage, dbVars, form, errors, isSubmitting, runs, imageVars,
                      authVars>>

\* onValueChange of the location dropdown, which is rendered once loading is over
\* and there are locations.
SelectLocation(value) ==
    LET rs == FetchEffect(locRuns, selectedLocation, value)
    IN /\ TimeslotsMounted
       /\ ~loading /\ Len(locations) > 0
       /\ \E k \in 1..Len(locations) : locations[k].location_id = value
       /\ value # selectedLocation
       /\ fetches < MaxFetches
       /\ selectedLocation' = value
       /\ locRuns' = rs
       /\ fetches' = fetches + (Len(rs) - Len(locRuns))
       /\ UNCHANGED <<route, storage, dbVars, form, errors, isSubmitting, runs, imageVars,
                      authVars, locations, loading>>

\* The timeslot page, just loaded.
TimeslotInit == Empty /\ Loaded(TimeslotPage, "repair")

TimeslotNext ==
    \/ \E p \in {TimeslotPage, HomePage} : UserNavigates(p)
    \/ \E i \in 1..(MaxFetches + 1), reply \in FetchReplies : LocationsReply(i, reply)
    \/ \E value \in {"l1", "l2", "l3"} : SelectLocation(value)

TimeslotSpec == TimeslotInit /\ [][TimeslotNext]_vars


(***************************************************************************)
(* The two submit handlers in one application: the user logs in through    *)
(* the modal of the home page, is redirected to the repair page and        *)
(* submits the repair form. A remote call that is pending eventually       *)
(* replies.                                                                *)
(***************************************************************************)
GetUserReply(i) ==
    \E u \in Users \cup {Null}, reply \in {"ok", "throw"} : GetUserReplies(i, u, reply)
ProductInsertReply(i) == \E reply \in Replies : ProductInsertReplies(i, reply)
RepairInsertReply(i) == \E reply \in Replies : RepairInsertReplies(i, reply)
SignInReply(i) == \E reply \in Replies : SignInReplies(i, reply)
LoginSessionReply(i) == \E reply \in SessionReplies : LoginSessionReplies(i, reply)

SubmitInit == Empty /\ \E t \in Types : Loaded(HomePage, t)

SubmitNext ==
    \/ \E v \in FormInputs : EditForm(v)
    \/ HandleSubmit
    \/ \E i \in 1..MaxRuns : GetUserReply(i)
    \/ \E i \in 1..MaxRuns : ProductInsertReply(i)
    \/ \E i \in 1..MaxRuns : RepairInsertReply(i)
    \/ \E t \in Types : OpenModal(t)
    \/ CloseModal
    \/ handleLoginClick
    \/ LoginSubmit
    \/ \E i \in 1..MaxAuthRuns : SignInReply(i)
    \/ \E i \in 1..MaxAuthRuns : LoginSessionReply(i)

SubmitFairness ==
    /\ \A i \in 1..MaxRuns :
          /\ WF_vars(GetUserReply(i))
          /\ WF_vars(ProductInsertReply(i))
          /\ WF_vars(RepairInsertReply(i))
    /\ \A i \in 1..MaxAuthRuns :
          /\ WF_vars(SignInReply(i))
          /\ WF_vars(LoginSessionReply(i))

SubmitSpec == SubmitInit /\ [][SubmitNext]_vars /\ SubmitFairness


(***************************************************************************)
(* The claims about the repair-request submission, under Spec.             *)
(***************************************************************************)
RunIds == 1..Len(runs)
Done(r) == r.pc = "done"
\* The run has had the replies rs so far, whoever the user of its first reply is.
UserReplied(r) == Len(r.replies) >= 1 /\ r.replies[1] \in Users
WithReplies(r, rs) == UserReplied(r) /\ SubSeq(r.replies, 2, Len(r.replies)) = rs
\* The step is the one in which run i gets its k-th reply, reply.
Gets(i, k, reply) ==
    /\ i \in RunIds
    /\ Len(runs[i].replies) = k - 1
    /\ Len(runs'[i].replies) = k
    /\ runs'[i].replies[k] = reply
Positions(r, e) == {k \in 1..Len(r.trace) : r.trace[k] = e}
Precedes(r, e, f) ==
    /\ Positions(r, e) # {} /\ Positions(r, f) # {}
    /\ \A k \in Positions(r, e), n \in Positions(r, f) : k < n
ProductOf(rr) == {p \in products : p.product_id = rr.product_id /\ p.user_id = rr.user_id}

C1_Rows ==
    /\ \A rr \in repair_requests : ProductOf(rr) # {}
    /\ \A i \in RunIds :
          InTrace(runs[i], Call("insert repair_requests")) =>
              /\ Len(runs[i].replies) >= 2 /\ runs[i].replies[2] = "ok"
              /\ \E p \in products : /\ p.product_id = runs[i].product_id
                                     /\ p.user_id = runs[i].user
C1_Insert ==
    \A rr \in repair_requests' \ repair_requests :
        /\ ProductOf(rr) # {}
        /\ \E i \in RunIds : /\ runs[i].pc = "insertRepair"
                             /\ runs[i].product_id = rr.product_id
                             /\ runs[i].user = rr.user_id

\* C1: a repair_requests row is inserted only after the products insert of the
\* same run has succeeded and returned its identifier, and it carries that
\* identifier: every repair_requests row references a products row that the same
\* user created before it.
C1_RepairRequestHasPriorProduct == [](C1_Rows) /\ [][C1_Insert]_vars

C1_Witness ==
    \E a \in repair_requests, b \in repair_requests :
        a.user_id # b.user_id /\ ProductOf(a) # {} /\ ProductOf(b) # {}

C2_Halted ==
    \A i \in RunIds :
        (Len(runs[i].replies) >= 2 /\ runs[i].replies[2] = "error") =>
            /\ Done(runs[i])
            /\ ~InTrace(runs[i], Call("insert repair_requests"))
            /\ ~Has(runs[i], IsSetItem)
            /\ ~Has(runs[i], IsNavigate)
C2_Step ==
    \A i \in RunIds :
        Gets(i, 2, "error") =>
            /\ repair_requests' = repair_requests
            /\ storage' = storage
            /\ route' = route

\* C2: when the products insert of a run replies with an error, the run never
\* issues the repair_requests insert: it halts, writes nothing to session storage
\* and does not navigate.
C2_ProductErrorHalts == [](C2_Halted) /\ [][C2_Step]_vars

C2_Witness ==
    \E i \in RunIds : Done(runs[i]) /\ WithReplies(runs[i], <<"error">>)

AuthenticationRequired(e) == IsDestructive(e) /\ e[2] = "Authentication required"

C3_NoInsert ==
    \A i \in RunIds :
        (Len(runs[i].replies) >= 1 /\ runs[i].replies[1] = Null) =>
            /\ Done(runs[i])
            /\ ~Has(runs[i], IsInsert)
            /\ Has(runs[i], AuthenticationRequired)
            /\ ~Has(runs[i], IsSetItem)
            /\ ~Has(runs[i], IsNavigate)
C3_Step ==
    \A i \in RunIds :
        Gets(i, 1, Null) =>
            /\ products' = products
            /\ repair_requests' = repair_requests
            /\ storage' = storage
            /\ route' = route

\* C3: when getUser replies with no user, the run issues no insert, shows the
\* "Authentication required" notice and leaves session storage and the route as
\* they are.
C3_AbsentUserAborts == [](C3_NoInsert) /\ [][C3_Step]_vars

C3_Witness ==
    \E i \in RunIds : Done(runs[i]) /\ runs[i].replies = <<Null>>

C4_Stored ==
    \A i \in RunIds :
        (Done(runs[i]) /\ WithReplies(runs[i], <<"ok", "ok">>)) =>
            /\ \E rr \in repair_requests : /\ rr.repair_id = runs[i].repair_id
                                           /\ rr.product_id = runs[i].product_id
            /\ Precedes(runs[i], SetItem(StorageKey, runs[i].repair_id),
                        NavigateTo(TimeslotPage))
            /\ \A k \in 1..Len(runs[i].trace) :
                  /\ IsNavigate(runs[i].trace[k]) =>
                         runs[i].trace[k] = NavigateTo(TimeslotPage)
                  /\ IsSetItem(runs[i].trace[k]) =>
                         runs[i].trace[k] = SetItem(StorageKey, runs[i].repair_id)
C4_Step ==
    \A i \in RunIds :
        (WithReplies(runs[i], <<"ok">>) /\ Gets(i, 3, "ok")) =>
            /\ \E rr \in repair_requests' \ repair_requests :
                  storage'[StorageKey] = rr.repair_id
            /\ route' = TimeslotPage

\* C4: when both inserts of a run succeed, then as the run ends the session-storage
\* key repairRequestId holds the identifier generated for the run's
\* repair_requests row, the write came before the navigation, and the route is
\* /repair-request-timeslots.
C4_StoredThenNavigated == [](C4_Stored) /\ [][C4_Step]_vars

C4_Witness ==
    \E i \in RunIds :
        /\ Done(runs[i]) /\ WithReplies(runs[i], <<"ok", "ok">>)
        /\ storage[StorageKey] = runs[i].repair_id
        /\ route = TimeslotPage

C5_Failed(r) ==
    WithReplies(r, <<"ok", "error">>) \/ WithReplies(r, <<"ok", "throw">>)
C5_Orphan ==
    \A i \in RunIds :
        (Done(runs[i]) /\ C5_Failed(runs[i])) =>
            /\ \E p \in products : p.product_id = runs[i].product_id
            /\ \A rr \in repair_requests : rr.product_id # runs[i].product_id
            /\ Has(runs[i], IsDestructive)
            /\ ~Has(runs[i], IsSetItem)
            /\ ~Has(runs[i], IsNavigate)
C5_Step ==
    \A i \in RunIds :
        (Gets(i, 3, "error") \/ Gets(i, 3, "throw")) =>
            /\ products' = products
            /\ repair_requests' = repair_requests
            /\ storage' = storage
            /\ route' = route

\* C5: there is no rollback. When the products insert of a run succeeds and its
\* repair_requests insert fails, the run's products row stays in the table with no
\* repair_requests row referencing it, a destructive notification is shown, and
\* session storage and the route are as they were.
C5_NoRollback == [](C5_Orphan) /\ [][C5_Step]_vars

C5_Witness ==
    \E i \in RunIds :
        /\ Done(runs[i]) /\ WithReplies(runs[i], <<"ok", "error">>)
        /\ \E p \in products : p.product_id = runs[i].product_id
        /\ \A rr \in repair_requests : rr.product_id # runs[i].product_id

(***************************************************************************)
(* The claims about the auth modal, under AuthSpec.                        *)
(***************************************************************************)
AuthRunIds == 1..MaxAuthRuns

\* The step is the one in which the handler returns from the run of slot i, which
\* was at pc, having got reply.
Returns(i, kind, pc, handler, reply) ==
    /\ AuthInFlight(i, kind, pc)
    /\ returned'.handler = handler
    /\ returned'.slot = i
    /\ returned'.reply = reply

C6_Reset ==
    (isOpen' /\ (~isOpen \/ type' # type)) =>
        /\ type' = "login" => step' = "login"
        /\ type' \in {"repair", "help"} => step' = "register"

\* C6: whenever the modal becomes open, or its type changes while it is open, the
\* step is reset to the initial step of the type: login for type "login", register
\* for type "repair" or "help", whatever step the modal was in before.
C6_StepResetOnOpen == [][C6_Reset]_vars

\* The modal has been reopened after a registration had brought it to verify.
C6_Witness == isOpen /\ email # "" /\ step = "register" /\ type = "help"

\* The decision as the claim states it.
C7_Decision(purpose, path) ==
    IF Len(path) > 1 /\ ~Includes(path, "/dashboard") THEN Stay
    ELSE IF purpose = "repair" THEN "/new-repair-request"
    ELSE IF purpose = "help" THEN "/repair-requests"
    ELSE Stay

C7_Paths ==
    {"/", "/dashboard", "/device/42", "/dashboard/settings", "/admin/dashboard",
     "/new-repair-request", "/repair-requests", "/d"}

C7_Table ==
    \A t \in Types, p \in C7_Paths \cup {route} :
        /\ LoginRedirect(t, p) = C7_Decision(t, p)
        /\ VerificationRedirect(t, p) = C7_Decision(t, p)

\* What the handler does on the decision for the purpose and the path of run r.
C7_Taken(r) ==
    LET d == C7_Decision(r.type, r.currentPath)
        last == returned'.trace[Len(returned'.trace)]
    IN IF d = Stay
       THEN route' = route /\ last = Call("onClose")
       ELSE route' = d /\ last = NavigateTo(d)

C7_Handlers ==
    \A i \in AuthRunIds :
        /\ Returns(i, "login", "getSession", "handleLoginSuccess", "session") =>
               C7_Taken(authRuns[i])
        /\ Returns(i, "verify", "getSession", "handleVerificationSuccess", "session") =>
               C7_Taken(authRuns[i])

\* C7: with a session present, handleLoginSuccess and handleVerificationSuccess
\* take the same redirect decision from the purpose and the current path: on a path
\* longer than "/" that does not contain "/dashboard" no navigation; otherwise
\* purpose "repair" goes to /new-repair-request, purpose "help" to
\* /repair-requests, and purpose "login" does not navigate.
C7_SameRedirectDecision == [](C7_Table) /\ [][C7_Handlers]_vars

\* A verification on the dashboard for purpose "help" has gone to the listing.
C7_Witness ==
    /\ returned.handler = "handleVerificationSuccess"
    /\ returned.reply = "session"
    /\ InTrace(returned, NavigateTo(RepairRequestsPage))
    /\ route = RepairRequestsPage

C8_Step ==
    \A i \in AuthRunIds :
        /\ Returns(i, "login", "auth", "LoginForm.onSubmit", "ok") => route' = route
        /\ Returns(i, "login", "getSession", "handleLoginSuccess", "session") =>
               /\ ~isOpen'
               /\ C7_Taken(authRuns[i])

\* C8: when the sign-in of the login step succeeds, the modal is closed and the
\* only navigation is the one of the redirect decision: the login form itself does
\* not navigate, and handleLoginSuccess navigates as the decision says, so that on
\* a path longer than "/" without "/dashboard" the user stays where they are.
C8_OnlyRedirectNavigates == [][C8_Step]_vars

C14_Handlers ==
    {<<"login", "handleLoginSuccess">>, <<"verify", "handleVerificationSuccess">>}

C14_ErrorTitles == {"Authentication error", "Verification error"}
C14_NoSessionTitles == {"Login failed", "Verification failed"}

\* The handler ends on a destructive notice with one of the titles, and the modal,
\* its step and the route are as they were.
C14_Refused(titles) ==
    LET last == returned'.trace[Len(returned'.trace)]
    IN /\ IsDestructive(last) /\ last[2] \in titles
       /\ ~InTrace(returned', Call("onClose"))
       /\ isOpen' = isOpen /\ step' = step /\ email' = email /\ type' = type
       /\ route' = route

C14_Session ==
    \A i \in AuthRunIds, h \in C14_Handlers :
        /\ Returns(i, h[1], "getSession", h[2], "error") => C14_Refused(C14_ErrorTitles)
        /\ Returns(i, h[1], "getSession", h[2], "noSession") =>
               C14_Refused(C14_NoSessionTitles)
        /\ Returns(i, h[1], "getSession", h[2], "session") =>
               /\ InTrace(returned', Call("onClose"))
               /\ ~isOpen'
        /\ \A reply \in SessionReplies :
               (Returns(i, h[1], "getSession", h[2], reply)
                /\ (InTrace(returned', Call("onClose")) \/ isOpen' # isOpen
                    \/ route' # route)) =>
                   reply = "session"

\* C14: after a successful auth call the modal closes and takes the redirect
\* decision only if getSession returned no error and a session; on an error, and on
\* no error but no session, the handler shows a destructive notice of its own for
\* each case, does not close the modal, leaves the step as it is and does not
\* redirect.
C14_SessionRequired == [][C14_Session]_vars

\* A verification whose session retrieval returned no session: the modal is still
\* open in the verify step.
C14_Witness ==
    /\ returned.handler = "handleVerificationSuccess"
    /\ returned.reply = "noSession"
    /\ isOpen /\ step = "verify"

\* The step changes by a link click, by the reset on open, or by a page load.
C15_OtherChange ==
    \/ step = "login" /\ step' = "register"
    \/ step = "register" /\ step' = "login"
    \/ isOpen' /\ (~isOpen \/ type' # type) /\ step' = InitialStep(type')
    \/ ~isOpen' /\ email' = "" /\ step' = InitialStep(type')

C15_Transitions ==
    /\ (step' = "verify" /\ step # "verify") =>
           /\ step = "register"
           /\ returned'.handler = "RegisterForm.onSubmit"
           /\ returned'.reply = "ok"
           /\ returned'.slot \in AuthRunIds
           /\ email' = authRuns[returned'.slot].email
    /\ (step' # step /\ step' # "verify") => C15_OtherChange
    /\ (step = "verify" /\ step' = "verify") => email' = email

\* C15: the verify step is entered only from the register step, by a successful
\* registration, and while the step is verify the stored email is the one that
\* registration passed; the other step changes are login to register and register
\* to login by the links and the reset on open, so verify is never reached from
\* login.
C15_VerifyOnlyFromRegister ==
    /\ [](step = "verify" => email \in Emails)
    /\ [][C15_Transitions]_vars

(***************************************************************************)
(* The claims about the image handlers, under ImageSpec.                   *)
(***************************************************************************)
\* An image MIME type, and the size limit, as the claim states them.
C11_Image(file) == StartsWith(file.type, "image/")
C11_Added(file) == C11_Image(file) /\ file.size <= 5 * 1024 * 1024
C11_Rejected(file) == ~C11_Added(file)
C11_Notice(file) == IF C11_Image(file) THEN "File too large" ELSE "Invalid file type"

C11_Selection ==
    (imageCall'.handler = "handleImageChange" /\ imageCall' # imageCall) =>
        LET files == imageCall'.files
            added == SelectSeq(files, C11_Added)
            rejected == SelectSeq(files, C11_Rejected)
        IN /\ images' = images \o added
           /\ Len(imagePreviewUrls') = Len(imagePreviewUrls) + Len(added)
           /\ Len(imageCall'.notices) = Len(rejected)
           /\ \A k \in 1..Len(rejected) :
                 /\ IsDestructive(imageCall'.notices[k])
                 /\ imageCall'.notices[k][2] = C11_Notice(rejected[k])

\* C11: handleImageChange appends a file of the selection to the image list and the
\* preview list if and only if its MIME type is an image type and its size is at
\* most 5MB; a non-image file gets the "Invalid file type" notice, an oversized
\* image the "File too large" notice, and the files after a rejected one are still
\* processed.
C11_ImagesOnly == [][C11_Selection]_vars

\* The position of an object URL among the URLs the document created.
UrlIndex(url) == CHOOSE n \in 1..Len(objectUrls) : createObjectURL(n) = url

C13_Lists ==
    /\ Len(images) = Len(imagePreviewUrls)
    /\ \A i \in 1..Len(imagePreviewUrls) :
          /\ \E n \in 1..Len(objectUrls) : createObjectURL(n) = imagePreviewUrls[i]
          /\ objectUrls[UrlIndex(imagePreviewUrls[i])] = images[i]
          /\ imagePreviewUrls[i] \notin revoked
    /\ \A i, j \in 1..Len(imagePreviewUrls) :
          imagePreviewUrls[i] = imagePreviewUrls[j] => i = j

C13_Removal ==
    (imageCall'.handler = "removeImage" /\ imagePreviewUrls' # imagePreviewUrls) =>
        LET k == imageCall'.index + 1
            n == Len(imagePreviewUrls)
        IN /\ k \in 1..n
           /\ images' = SubSeq(images, 1, k - 1) \o SubSeq(images, k + 1, n)
           /\ imagePreviewUrls' =
                  SubSeq(imagePreviewUrls, 1, k - 1) \o SubSeq(imagePreviewUrls, k + 1, n)
           /\ revoked' = revoked \cup {imagePreviewUrls[k]}
           /\ objectUrls' = objectUrls

\* C13: removeImage(index) removes exactly the file and the preview URL at index,
\* revokes exactly that URL and keeps the other entries in order; after any calls
\* of handleImageChange and removeImage the two lists have the same length, the
\* preview at a position is the URL created for the file at that position, and no
\* URL in the preview list has been revoked.
C13_RemoveExactlyOne == [](C13_Lists) /\ [][C13_Removal]_vars

\* The middle one of three previews has been removed.
C13_Witness ==
    /\ imageCall = [handler |-> "removeImage", index |-> 1, files |-> <<>>,
                    notices |-> <<>>]
    /\ imagePreviewUrls = <<createObjectURL(1), createObjectURL(3)>>
    /\ images = <<objectUrls[1], objectUrls[3]>>
    /\ objectUrls[1] # objectUrls[3]
    /\ revoked = {createObjectURL(2)}

(***************************************************************************)
(* The claim about the timeslot page, under TimeslotSpec.                  *)
(***************************************************************************)
C12_Once == TimeslotsMounted => fetches = 1

C12_Default ==
    (/\ TimeslotsMounted /\ route' = route
     /\ selectedLocation = Null
     /\ locations' # <<>>) =>
        selectedLocation' = locations'[1].location_id

\* C12: the timeslot page issues the select of locations exactly once per page
\* load, and a fetch that returns at least one row while no location is selected
\* leaves the first row's identifier selected.
C12_FetchedOnce == [](C12_Once) /\ [][C12_Default]_vars

(***************************************************************************)
(* The claim about the resolver, under SchemaSpec.                         *)
(***************************************************************************)
C10_Accepts(v) ==
    /\ \E k \in 1..9 : v.deviceType = deviceTypes[k]
    /\ Len(v.description) >= 20
    /\ Len(v.description) <= 500

C10_Validated == runs # <<>> \/ errors # {}

\* C10: the resolver accepts the form, and so lets onSubmit start, if and only if
\* deviceType is one of the 9 literals and the description has between 20 and 500
\* characters inclusive; brand and model play no part.
C10_AcceptsIff ==
    /\ Len(deviceTypes) = 9 /\ Cardinality(DeviceTypeEnum) = 9
    /\ formSchema(form) <=> C10_Accepts(form)
    /\ C10_Validated => ((runs # <<>>) <=> C10_Accepts(form))
    /\ runs # <<>> => (isSubmitting /\ runs[1].values = form /\ errors = {})
    /\ runs = <<>> => ~isSubmitting

\* A description of exactly 500 characters with no brand has been accepted.
C10_Witness ==
    /\ runs # <<>>
    /\ Len(form.description) = 500
    /\ form.brand = Undefined
    /\ form.deviceType = "Fume hood"

(***************************************************************************)
(* The claim about the two submit handlers, under SubmitSpec.              *)
(***************************************************************************)
RepairRunning(i) == i \in RunIds /\ runs[i].pc \notin {"done", "unloaded"}

\* The run is over: it has ended, or the page that ran it has been unloaded.
RepairOver(i) ==
    /\ i \in RunIds
    /\ runs[i].pc \in {"done", "unloaded"}
    /\ runs[i].mounted => ~isSubmitting

C9_Failure(r) ==
    \/ r.replies[1] = Null
    \/ r.replies[Len(r.replies)] \in {"error", "throw"}

C9_Ends ==
    /\ \A i \in RunIds :
          (RepairRunning(i) /\ runs'[i].pc = "done") =>
              /\ runs[i].mounted => ~isSubmitting'
              /\ C9_Failure(runs'[i]) => Has(runs'[i], IsDestructive)
              /\ ~C9_Failure(runs'[i]) => ~Has(runs'[i], IsDestructive)
    /\ \A i \in AuthRunIds, reply \in Replies :
          Returns(i, "login", "auth", "LoginForm.onSubmit", reply) =>
              /\ authRuns[i].mounted => ~loginSubmitting'
              /\ reply # "ok" => Has(returned', IsDestructive)
              /\ reply = "ok" => ~Has(returned', IsDestructive)

\* C9: every run of the repair form's onSubmit and of the login form's onSubmit
\* eventually ends, whatever its remote calls reply, and at its end the
\* isSubmitting of the form that started it is false; a run that ends in a failure
\* (absent user, sign-in error, insert error, exception of a remote call) has shown
\* a destructive notification.
C9_SubmitEnds ==
    /\ [][C9_Ends]_vars
    /\ \A i \in 1..MaxRuns : RepairRunning(i) ~> RepairOver(i)
    /\ \A i \in 1..MaxAuthRuns :
          AuthInFlight(i, "login", "auth") ~> ~AuthInFlight(i, "login", "auth")

\* A submission has ended on an insert error after a login through the modal, and
\* the submit control is enabled again.
C9_Witness ==
    /\ returned.handler = "handleLoginSuccess"
    /\ Mounted /\ ~isSubmitting
    /\ \E i \in RunIds :
          Done(runs[i]) /\ runs[i].mounted /\ WithReplies(runs[i], <<"ok", "error">>)


(***************************************************************************)
(* Claims about concurrent submissions of the repair form.                 *)
(***************************************************************************)
\* The runs of onSubmit that have a remote call pending.
C16_InFlight == {i \in RunIds : RepairRunning(i)}

\* Every row was inserted by a run, and a run inserts at most one row per table.
C16_Rows ==
    /\ Cardinality(products) <= Len(runs)
    /\ Cardinality(repair_requests) <= Len(runs)
    /\ \A i, j \in RunIds :
          /\ (i # j /\ runs[i].product_id # Null) =>
                 runs[i].product_id # runs[j].product_id
          /\ (i # j /\ runs[i].repair_id # Null) =>
                 runs[i].repair_id # runs[j].repair_id

\* onSubmit starts only while no run of onSubmit has a remote call pending, and a
\* step inserts at most one row into each table.
C16_Start ==
    /\ Len(runs') > Len(runs) => C16_InFlight = {}
    /\ Cardinality(products') <= Cardinality(products) + 1
    /\ Cardinality(repair_requests') <= Cardinality(repair_requests) + 1

\* C16: on the repair form at most one submission sequence is in flight at any
\* time: a second onSubmit cannot start while a remote call of the first is
\* pending, and one submit action creates at most one Product row and at most one
\* RepairRequest row.
C16_SingleSubmission ==
    /\ [](Cardinality(C16_InFlight) <= 1 /\ C16_Rows)
    /\ [][C16_Start]_vars

=============================================================================
